---- MODULE Spec2Model ----
(***************************************************************************)
(* Model of the Caddy meter module: the metric registry (MeterModule),     *)
(* the recording directive (UseMeter) and the response capture sink        *)
(* (responseWriter).                                                       *)
(*                                                                         *)
(* Text is a sequence of tokens: one-character strings and, for templates, *)
(* placeholder tokens such as "{meter.response.size}".  Values are float64 *)
(* in the program; the model draws them from the integers (elapsed time in *)
(* whole seconds), which is where the compared cases (0, 1, negative) lie. *)
(***************************************************************************)
EXTENDS Integers, Sequences, FiniteSets, TLC

VARIABLES
    phase,       \* "init" | "loaded" | "provisioned" | "serving" | "failed" | "crashed"
    app,         \* whether the configuration has a "meter" app
    Metrics,     \* MeterModule.Metrics: name -> Metric
    h,           \* the UseMeter handler: MetricName, useMetric
    provResult,  \* what MeterModule.Provision did: "none" | "ok" | "error" | "panic"
    provLog,     \* name -> what the loop iteration for that metric saw and did
    setupErr,    \* what UseMeter.Provision returned: "unset" | "nil" | an error
    coll,        \* backend: the registered collectors, indexed by handle
    byName,      \* backend: export name -> handle (NoCollector when unregistered)
    samples,     \* backend: handle -> (label values -> [sum, count])
    replacer,    \* the request's caddy.Replacer: placeholder -> text
    pc,          \* "idle" | "next" (downstream running) | "returned"
    wrapped,     \* whether the downstream handler was given the responseWriter
    wrap,        \* the responseWriter: statusCode, responseLength
    under,       \* the underlying http.ResponseWriter: wroteHeader, status, bytes
    hdrCalls,    \* the codes the downstream handler passed to WriteHeader, in order
    nwrites,     \* number of Write calls of the downstream handler
    res,         \* what the downstream handler returned
    ret,         \* what ServeHTTP returned ("panic" when it did not return)
    trace,       \* the steps of the current (or last) request, in order
    dispatched,  \* the last dispatch: collector, label values, value
    nreq         \* number of requests started

vars == <<phase, app, Metrics, h, provResult, provLog, setupErr, coll, byName,
          samples, replacer, pc, wrapped, wrap, under, hdrCalls, nwrites, res,
          ret, trace, dispatched, nreq>>

cfgVars == <<phase, app, Metrics, h, provResult, provLog, setupErr, coll, byName>>
reqVars == <<replacer, pc, wrapped, wrap, under, hdrCalls, nwrites, res, ret, trace>>

----------------------------------------------------------------------------
\* Bounds of the model.
MaxRequests == 2
MaxHeaderCalls == 2
MaxWrites == 1

\* The nil pointer of useMetric.
NULL == "nil"

\* The nil pointer of requestCounter and responseTime; handles count from 1.
NoCollector == 0

MetricTypeCounter == "counter"
MetricTypeHistogram == "histogram"

----------------------------------------------------------------------------
\* Text and conversions.

Digits == <<"0", "1", "2", "3", "4", "5", "6", "7", "8", "9">>

IsDigit(c) == \E d \in 1..Len(Digits) : Digits[d] = c

DigitVal(c) == (CHOOSE d \in 1..Len(Digits) : Digits[d] = c) - 1

RECURSIVE Itoa(_)
Itoa(n) ==
    IF n < 0 THEN <<"-">> \o Itoa(0 - n)
    ELSE IF n < Len(Digits) THEN <<Digits[n + 1]>>
    ELSE Itoa(n \div Len(Digits)) \o <<Digits[(n % Len(Digits)) + 1]>>

\* duration.Seconds() formatted with 'f', -1: for whole seconds, the digits.
FormatFloat(d) == Itoa(d)

RECURSIVE DigitsVal(_)
DigitsVal(s) ==
    IF s = <<>> THEN 0
    ELSE DigitsVal(SubSeq(s, 1, Len(s) - 1)) * Len(Digits) + DigitVal(s[Len(s)])

\* strconv.ParseFloat on the texts of the model: an optional sign and digits.
ParseFloat(s) ==
    LET signed == s # <<>> /\ s[1] \in {"-", "+"}
        body   == IF signed THEN Tail(s) ELSE s
    IN  IF body = <<>> \/ \E i \in 1..Len(body) : ~IsDigit(body[i])
        THEN [err |-> TRUE, val |-> 0]
        ELSE [err |-> FALSE,
              val |-> IF signed /\ s[1] = "-" THEN 0 - DigitsVal(body)
                      ELSE DigitsVal(body)]

\* Placeholder tokens of the templates.
PhStatus == "{meter.response.status}"
PhSize == "{meter.response.size}"
PhDuration == "{meter.response.duration}"
PhQuery == "{http.request.uri.query}"
PhUnknown == "{nope}"
Placeholders == {PhStatus, PhSize, PhDuration, PhQuery, PhUnknown}

\* The text the replacer writes for an empty value.
EmptyLabel == <<"<empty>">>
EmptyValue == <<"1">>

\* caddy.Replacer.ReplaceAll: unknown placeholders count as empty.
RECURSIVE ReplaceAll(_, _, _)
ReplaceAll(r, input, empty) ==
    IF input = <<>> THEN <<>>
    ELSE LET tok == Head(input)
             out == IF tok \notin Placeholders THEN <<tok>>
                    ELSE IF tok \in DOMAIN r /\ r[tok] # <<>> THEN r[tok]
                    ELSE empty
         IN  out \o ReplaceAll(r, Tail(input), empty)

\* caddy.Replacer.ReplaceKnown: unknown placeholders are left as they are.
RECURSIVE ReplaceKnown(_, _, _)
ReplaceKnown(r, input, empty) ==
    IF input = <<>> THEN <<>>
    ELSE LET tok == Head(input)
             out == IF tok \notin Placeholders THEN <<tok>>
                    ELSE IF tok \notin DOMAIN r THEN <<tok>>
                    ELSE IF r[tok] # <<>> THEN r[tok]
                    ELSE empty
         IN  out \o ReplaceKnown(r, Tail(input), empty)

\* replacer.Set
ReplacerSet(r, key, val) ==
    [k \in DOMAIN r \cup {key} |-> IF k = key THEN val ELSE r[k]]

----------------------------------------------------------------------------
\* Configurations.

Label(name, value) == [Name |-> name, Value |-> value]

Metric(type, name, export, labels, after, value) ==
    [Type |-> type, Name |-> name, ExportName |-> export, Description |-> "d",
     Labels |-> labels, AfterResponse |-> after, Value |-> value,
     requestCounter |-> NoCollector, responseTime |-> NoCollector]

L1 == Label("l1", <<PhQuery>>)
L2 == Label("l2", <<PhStatus>>)
L3 == Label("l2", <<"k">>)

NoValue == <<>>
ValueTemplates ==
    {NoValue, <<"0">>, <<"2">>, <<"-", "1">>, <<"a", "b", "c">>, <<PhSize>>,
     <<PhUnknown>>}

EmptyMetrics == [n \in {} |-> 0]

\* Configurations that exercise the registry: one or two definitions that
\* share the export name, of either kind (or an unknown one), with the
\* labels in either order, and a handler that names one of them or none.
ProvA == {Metric(t, "a", "x", ls, t = MetricTypeHistogram, NoValue) :
              t \in {MetricTypeCounter, MetricTypeHistogram},
              ls \in {<<L1, L3>>, <<L1>>}}
ProvB == {Metric(t, "b", "x", <<L3, L1>>, t = MetricTypeHistogram, NoValue) :
              t \in {MetricTypeCounter, MetricTypeHistogram, "gauge"}}

ProvConfigs ==
    {[app |-> FALSE, Metrics |-> EmptyMetrics, use |-> "a"]}
    \cup {[app |-> TRUE, Metrics |-> EmptyMetrics, use |-> "a"]}
    \cup {[app |-> TRUE, Metrics |-> [n \in {"a"} |-> a], use |-> u] :
              a \in ProvA, u \in {"a", "c"}}
    \cup {[app |-> TRUE,
           Metrics |-> [n \in {"a", "b"} |-> IF n = "a" THEN a ELSE b],
           use |-> "b"] : a \in ProvA, b \in ProvB}

\* Configurations that exercise the recording engine: one definition of
\* either kind, immediate or deferred, with each value template.
ServeConfigs ==
    {[app |-> TRUE,
      Metrics |-> [n \in {"a"} |-> Metric(t, "a", "x", <<L1, L2>>, after, v)],
      use |-> "a"] :
         t \in {MetricTypeCounter, MetricTypeHistogram},
         after \in BOOLEAN, v \in ValueTemplates}

----------------------------------------------------------------------------
\* The metrics backend (prometheus registry and collectors).

ExportNames == {"x"}

LabelNames(m) == [i \in 1..Len(m.Labels) |-> m.Labels[i].Name]

Range(s) == {s[i] : i \in 1..Len(s)}

\* prometheus.NewCounterVec / NewHistogramVec
NewVec(kind, m) ==
    [kind |-> kind, name |-> m.ExportName, help |-> m.Description,
     labelNames |-> LabelNames(m)]

\* registry.Register: a collector under a new name is registered; one whose
\* name is taken is reported as already registered when help and the set of
\* label names are those of the existing one, and is an error otherwise.
Register(b, c) ==
    LET id == b.byName[c.name]
    IN  IF id = NoCollector
        THEN [err |-> "nil", existing |-> NoCollector,
              coll |-> Append(b.coll, c),
              byName |-> [b.byName EXCEPT ![c.name] = Len(b.coll) + 1],
              samples |-> Append(b.samples, [k \in {} |-> 0])]
        ELSE [err |-> IF b.coll[id].help = c.help
                         /\ Range(b.coll[id].labelNames) = Range(c.labelNames)
                      THEN "AlreadyRegisteredError" ELSE "error",
              existing |-> id,
              coll |-> b.coll, byName |-> b.byName, samples |-> b.samples]

Backend == [coll |-> coll, byName |-> byName, samples |-> samples]

----------------------------------------------------------------------------
\* MeterModule.Provision.

\* The collector field that the kind of a definition uses.
BoundCollector(m) ==
    IF m.Type = MetricTypeCounter THEN m.requestCounter ELSE m.responseTime

SetCollector(m, id) ==
    IF m.Type = MetricTypeCounter THEN [m EXCEPT !.requestCounter = id]
    ELSE [m EXCEPT !.responseTime = id]

\* Number of observations a collector holds.
RECURSIVE SumCounts(_, _)
SumCounts(f, keys) ==
    IF keys = {} THEN 0
    ELSE LET k == CHOOSE x \in keys : TRUE
         IN  f[k].count + SumCounts(f, keys \ {k})

Observations(b, id) ==
    IF id \in DOMAIN b.samples THEN SumCounts(b.samples[id], DOMAIN b.samples[id])
    ELSE 0

\* An adoption that keeps the collector just constructed.
OnRegisterErrorKeepFresh(kind, err, existing, existingKind, fresh) ==
    IF err = "AlreadyRegisteredError"
    THEN IF existingKind = kind
         THEN [outcome |-> "bound", handle |-> fresh]
         ELSE [outcome |-> "panic", handle |-> fresh]
    ELSE [outcome |-> "error", handle |-> fresh]

\* After Register returned an error: an AlreadyRegisteredError makes the
\* definition take the existing collector, by a type assertion to the vector
\* type of its own kind, which panics on a collector of the other kind; any
\* other error is returned, the field left at the constructed collector.
OnRegisterError(kind, err, existing, existingKind, fresh) ==
    IF err = "AlreadyRegisteredError"
    THEN IF existingKind = kind
         THEN [outcome |-> "bound", handle |-> existing]
         ELSE [outcome |-> "panic", handle |-> fresh]
    ELSE [outcome |-> "error", handle |-> fresh]

\* One iteration of the loop over m.Metrics.
ProvisionMetric(st, name) ==
    LET m     == st.Metrics[name]
        fresh == Len(st.b.coll) + 1
        none  == [reg |-> "none", existing |-> NoCollector, fresh |-> fresh,
                  prior |-> 0, outcome |-> "error"]
    IN  IF st.result # "ok" THEN st
        ELSE IF m.Type \notin {MetricTypeCounter, MetricTypeHistogram}
        THEN [st EXCEPT !.result = "error", !.log[name] = none]
        ELSE
          LET r  == Register(st.b, NewVec(m.Type, m))
              b2 == [coll |-> r.coll, byName |-> r.byName, samples |-> r.samples]
              o  == IF r.err = "nil" THEN [outcome |-> "bound", handle |-> fresh]
                    ELSE OnRegisterError(m.Type, r.err, r.existing,
                                         st.b.coll[r.existing].kind, fresh)
          IN  [Metrics |-> [st.Metrics EXCEPT ![name] = SetCollector(m, o.handle)],
               b       |-> b2,
               log     |-> [st.log EXCEPT ![name] =
                              [reg |-> r.err, existing |-> r.existing,
                               fresh |-> fresh,
                               prior |-> Observations(st.b, r.existing),
                               outcome |-> o.outcome]],
               result  |-> IF o.outcome = "bound" THEN "ok" ELSE o.outcome]

RECURSIVE ProvisionLoop(_, _)
ProvisionLoop(st, order) ==
    IF order = <<>> THEN st
    ELSE ProvisionLoop(ProvisionMetric(st, Head(order)), Tail(order))

\* The orders in which a range over the map can visit its keys.
Orders(S) ==
    {o \in [1..Cardinality(S) -> S] : \A i, j \in 1..Cardinality(S) : o[i] = o[j] => i = j}

NotVisited ==
    [reg |-> "none", existing |-> NoCollector, fresh |-> NoCollector,
     prior |-> 0, outcome |-> "none"]

MeterModuleProvision ==
    /\ phase = "loaded"
    /\ app
    /\ \E order \in Orders(DOMAIN Metrics) :
         LET st == ProvisionLoop([Metrics |-> Metrics, b |-> Backend,
                                  log |-> provLog, result |-> "ok"], order)
         IN  /\ Metrics' = st.Metrics
             /\ coll' = st.b.coll
             /\ byName' = st.b.byName
             /\ samples' = st.b.samples
             /\ provLog' = st.log
             /\ provResult' = st.result
             /\ phase' = IF st.result = "panic" THEN "crashed" ELSE "provisioned"
    /\ UNCHANGED <<app, h, setupErr, dispatched, nreq>>
    /\ UNCHANGED reqVars

----------------------------------------------------------------------------
\* Loading a configuration (the host unmarshals the app and the handler).

NoDispatch == [handle |-> NoCollector, kind |-> "none", labelValues |-> <<>>, value |-> 0]
NoWrap == [statusCode |-> 0, responseLength |-> 0]
NoUnder == [wroteHeader |-> FALSE, status |-> 0, bytes |-> 0]
NoReplacer == [k \in {} |-> <<>>]

LoadConfig(pool) ==
    /\ phase \in {"init", "serving", "failed"}
    /\ pc = "idle"
    /\ \E c \in pool :
         /\ app' = c.app
         /\ Metrics' = c.Metrics
         /\ h' = [MetricName |-> c.use, useMetric |-> NULL]
         /\ provLog' = [n \in DOMAIN c.Metrics |-> NotVisited]
    /\ phase' = "loaded"
    /\ provResult' = "none"
    /\ setupErr' = "unset"
    /\ replacer' = NoReplacer
    /\ wrapped' = FALSE
    /\ wrap' = NoWrap
    /\ under' = NoUnder
    /\ hdrCalls' = <<>>
    /\ nwrites' = 0
    /\ res' = "none"
    /\ ret' = "none"
    /\ trace' = <<>>
    /\ dispatched' = NoDispatch
    /\ UNCHANGED <<coll, byName, samples, pc, nreq>>

----------------------------------------------------------------------------
\* UseMeter.Provision.

\* A lookup that does not report a missing key.
LookupIgnoreMissing(ms, name) ==
    [ok |-> TRUE, val |-> IF name \in DOMAIN ms THEN name ELSE NULL]

\* metricsList.Metrics[h.MetricName]
Lookup(ms, name) ==
    IF name \in DOMAIN ms THEN [ok |-> TRUE, val |-> name]
    ELSE [ok |-> FALSE, val |-> NULL]

\* AppIfConfigured fails when the configuration has no meter app or when
\* the app's Provision returned an error; the app it returns is always the
\* MeterModule, so the type assertion holds; then the name is looked up.
UseMeterProvision ==
    /\ \/ phase = "loaded" /\ ~app
       \/ phase = "provisioned"
    /\ LET l == Lookup(Metrics, h.MetricName)
       IN  IF ~app \/ provResult = "error"
           THEN /\ setupErr' = "app"
                /\ h' = h
           ELSE IF ~l.ok
           THEN /\ setupErr' = "not found"
                /\ h' = h
           ELSE /\ setupErr' = "nil"
                /\ h' = [h EXCEPT !.useMetric = l.val]
    /\ phase' = IF setupErr' = "nil" THEN "serving" ELSE "failed"
    /\ UNCHANGED <<app, Metrics, provResult, provLog, coll, byName, samples,
                   dispatched, nreq>>
    /\ UNCHANGED reqVars

----------------------------------------------------------------------------
\* UseMeter.report.

\* Counter: a value of zero is replaced by one.
CounterValue(value) == IF value = 0 THEN 1 ELSE value

\* The i-th label value is the resolved template of the definition's i-th label.
LabelValues(m, r) ==
    [i \in 1..Len(m.Labels) |-> ReplaceKnown(r, m.Labels[i].Value, EmptyLabel)]

\* WithLabelValues(lvs...).Add(v) / .Observe(v) on the samples of a collector.
AddSample(f, lvs, v) ==
    [k \in DOMAIN f \cup {lvs} |->
        IF k # lvs THEN f[k]
        ELSE IF lvs \in DOMAIN f
             THEN [sum |-> f[k].sum + v, count |-> f[k].count + 1]
             ELSE [sum |-> v, count |-> 1]]

\* report: resolves the label values and hands them, with the value, to the
\* collector of the definition's kind.  The collector panics when the number
\* of label values is not its number of label names, and a counter panics
\* on a negative value.
Report(m, r, value, b) ==
    LET lvs    == LabelValues(m, r)
        handle == BoundCollector(m)
        v      == IF m.Type = MetricTypeCounter THEN CounterValue(value) ELSE value
        names  == IF handle \in DOMAIN b.coll THEN b.coll[handle].labelNames
                  ELSE LabelNames(m)
        panic  == \/ handle = NoCollector
                  \/ Len(lvs) # Len(names)
                  \/ m.Type = MetricTypeCounter /\ v < 0
    IN  [panic   |-> panic,
         samples |-> IF panic \/ handle \notin DOMAIN b.samples THEN b.samples
                     ELSE [b.samples EXCEPT ![handle] = AddSample(@, lvs, v)],
         dispatched |-> [handle |-> handle, kind |-> m.Type,
                         labelValues |-> lvs, value |-> v]]

----------------------------------------------------------------------------
\* responseWriter.

\* responseWriter.WriteHeader: the field takes the code of the call.
WriteHeader(w, statusCode) == [w EXCEPT !.statusCode = statusCode]

\* responseWriter.Status
Status(w) == w.statusCode

\* responseWriter.Write: the length written is added.
Write(w, n) == [w EXCEPT !.responseLength = @ + n]

\* The underlying http.ResponseWriter: the first WriteHeader is the one sent,
\* and a Write before any WriteHeader sends 200.
UnderWriteHeader(u, statusCode) ==
    IF u.wroteHeader THEN u
    ELSE [u EXCEPT !.wroteHeader = TRUE, !.status = statusCode]

UnderWrite(u, n) ==
    [UnderWriteHeader(u, 200) EXCEPT !.bytes = @ + n]

----------------------------------------------------------------------------
\* UseMeter.ServeHTTP.

Queries == {<<>>, <<"q">>}
StatusCodes == {200, 404}
BodySizes == {12}
Elapsed == {0, 3}
Results == {"nil", "error"}

\* The value of the immediate path.
ImmediateValue(m, r) ==
    IF m.Value # NoValue
    THEN LET p == ParseFloat(ReplaceAll(r, m.Value, EmptyValue))
         IN  IF p.err THEN 0 ELSE p.val
    ELSE IF m.Type = MetricTypeHistogram THEN 0
    ELSE 1

\* The value of the deferred path.
DeferredValue(m, r, duration) ==
    IF m.Value # NoValue
    THEN LET p == ParseFloat(ReplaceAll(r, m.Value, EmptyValue))
         IN  IF p.err THEN 0 ELSE p.val
    ELSE IF m.Type = MetricTypeHistogram THEN duration
    ELSE 0

\* The three placeholders set after the downstream handler returned.
Publish(r, w, duration) ==
    ReplacerSet(ReplacerSet(ReplacerSet(r,
        PhStatus, Itoa(Status(w))),
        PhSize, Itoa(w.responseLength)),
        PhDuration, FormatFloat(duration))

\* ServeHTTP up to the call of the downstream handler: on the immediate path
\* the value is resolved and reported first; on the deferred path the writer
\* is wrapped.
ServeHTTPCall ==
    /\ phase = "serving"
    /\ pc = "idle"
    /\ nreq < MaxRequests
    /\ nreq' = nreq + 1
    /\ \E q \in Queries :
         LET r0 == [k \in {PhQuery} |-> q]
             m  == Metrics[h.useMetric]
             rp == Report(m, r0, ImmediateValue(m, r0), Backend)
         IN  /\ replacer' = r0
             /\ IF h.useMetric = NULL
                THEN /\ trace' = <<"panic">>
                     /\ pc' = "idle"
                     /\ ret' = "panic"
                     /\ wrapped' = FALSE
                     /\ UNCHANGED <<samples, dispatched>>
                ELSE IF ~m.AfterResponse
                THEN /\ dispatched' = rp.dispatched
                     /\ samples' = rp.samples
                     /\ wrapped' = FALSE
                     /\ IF rp.panic
                        THEN /\ trace' = <<"dispatch", "panic">>
                             /\ pc' = "idle"
                             /\ ret' = "panic"
                        ELSE /\ trace' = <<"dispatch", "next">>
                             /\ pc' = "next"
                             /\ ret' = "none"
                ELSE /\ wrapped' = TRUE
                     /\ trace' = <<"next">>
                     /\ pc' = "next"
                     /\ ret' = "none"
                     /\ UNCHANGED <<samples, dispatched>>
    /\ wrap' = NoWrap
    /\ under' = NoUnder
    /\ hdrCalls' = <<>>
    /\ nwrites' = 0
    /\ res' = "none"
    /\ UNCHANGED <<phase, app, Metrics, h, provResult, provLog, setupErr, coll, byName>>

\* The downstream handler sets a status code.
NextWriteHeader ==
    /\ pc = "next"
    /\ Len(hdrCalls) < MaxHeaderCalls
    /\ \E code \in StatusCodes :
         /\ hdrCalls' = Append(hdrCalls, code)
         /\ wrap' = IF wrapped THEN WriteHeader(wrap, code) ELSE wrap
         /\ under' = UnderWriteHeader(under, code)
    /\ UNCHANGED <<replacer, pc, wrapped, nwrites, res, ret, trace, samples,
                   dispatched, nreq>>
    /\ UNCHANGED cfgVars

\* The downstream handler writes body bytes.
NextWrite ==
    /\ pc = "next"
    /\ nwrites < MaxWrites
    /\ \E n \in BodySizes :
         /\ wrap' = IF wrapped THEN Write(wrap, n) ELSE wrap
         /\ under' = UnderWrite(under, n)
    /\ nwrites' = nwrites + 1
    /\ UNCHANGED <<replacer, pc, wrapped, hdrCalls, res, ret, trace, samples,
                   dispatched, nreq>>
    /\ UNCHANGED cfgVars

\* The downstream handler returns.
NextReturn ==
    /\ pc = "next"
    /\ \E e \in Results : res' = e
    /\ pc' = "returned"
    /\ trace' = Append(trace, "nextret")
    /\ UNCHANGED <<replacer, wrapped, wrap, under, hdrCalls, nwrites, ret,
                   samples, dispatched, nreq>>
    /\ UNCHANGED cfgVars

\* ServeHTTP after the downstream handler returned: the immediate path
\* returns its result; the deferred path publishes the placeholders,
\* resolves the value, reports and returns the result.
ServeHTTPReturn ==
    /\ pc = "returned"
    /\ pc' = "idle"
    /\ IF ~wrapped
       THEN /\ ret' = res
            /\ UNCHANGED <<replacer, trace, samples, dispatched>>
       ELSE \E duration \in Elapsed :
              LET m  == Metrics[h.useMetric]
                  r1 == Publish(replacer, wrap, duration)
                  rp == Report(m, r1, DeferredValue(m, r1, duration), Backend)
              IN  /\ replacer' = r1
                  /\ dispatched' = rp.dispatched
                  /\ samples' = rp.samples
                  /\ IF rp.panic
                     THEN /\ trace' = trace \o <<"publish", "dispatch", "panic">>
                          /\ ret' = "panic"
                     ELSE /\ trace' = trace \o <<"publish", "dispatch">>
                          /\ ret' = res
    /\ UNCHANGED <<wrapped, wrap, under, hdrCalls, nwrites, res, nreq>>
    /\ UNCHANGED cfgVars

----------------------------------------------------------------------------
\* Specifications.

Init ==
    /\ phase = "init"
    /\ app = FALSE
    /\ Metrics = EmptyMetrics
    /\ h = [MetricName |-> "", useMetric |-> NULL]
    /\ provResult = "none"
    /\ provLog = EmptyMetrics
    /\ setupErr = "unset"
    /\ coll = <<>>
    /\ byName = [n \in ExportNames |-> NoCollector]
    /\ samples = <<>>
    /\ replacer = NoReplacer
    /\ pc = "idle"
    /\ wrapped = FALSE
    /\ wrap = NoWrap
    /\ under = NoUnder
    /\ hdrCalls = <<>>
    /\ nwrites = 0
    /\ res = "none"
    /\ ret = "none"
    /\ trace = <<>>
    /\ dispatched = NoDispatch
    /\ nreq = 0

\* The registry under configurations that share an export name.
Next ==
    \/ LoadConfig(ProvConfigs)
    \/ MeterModuleProvision
    \/ UseMeterProvision
    \/ ServeHTTPCall
    \/ NextWriteHeader
    \/ NextWrite
    \/ NextReturn
    \/ ServeHTTPReturn

Spec == Init /\ [][Next]_vars

\* The recording engine under each kind, path and value template.
NextServe ==
    \/ LoadConfig(ServeConfigs)
    \/ MeterModuleProvision
    \/ UseMeterProvision
    \/ ServeHTTPCall
    \/ NextWriteHeader
    \/ NextWrite
    \/ NextReturn
    \/ ServeHTTPReturn

SpecServe == Init /\ [][NextServe]_vars

----------------------------------------------------------------------------
\* Properties.

\* The definition the handler is bound to.
Def == Metrics[h.useMetric]

\* The current (or last) request has handed a value to the collector.
Dispatched == h.useMetric # NULL /\ \E i \in 1..Len(trace) : trace[i] = "dispatch"

\* The last request is over: ServeHTTP returned or panicked.
Completed == h.useMetric # NULL /\ pc = "idle" /\ trace # <<>>

\* The deferred path has set the three placeholders.
Published == wrapped /\ PhStatus \in DOMAIN replacer

\* The text of the value template as the request resolved it.
ResolvedValue == ParseFloat(ReplaceAll(replacer, Def.Value, EmptyValue))

\* C1: on the deferred path, once the downstream handler has set a status
\* code, the status of the sink is the code of the first call, whatever
\* later calls pass, and that is the status published as the placeholder.
C1_FirstStatusRecorded ==
    (wrapped /\ hdrCalls # <<>>) =>
        /\ Status(wrap) = hdrCalls[1]
        /\ Published => replacer[PhStatus] = Itoa(hdrCalls[1])

\* C2: when the backend reports a collector as already registered under the
\* export name of a definition and that collector is of the other kind,
\* provisioning returns an error: it does not panic and the definition is
\* not bound to the existing collector.
C2_KindMismatchIsError ==
    \A n \in DOMAIN provLog :
        (/\ provLog[n].reg = "AlreadyRegisteredError"
         /\ coll[provLog[n].existing].kind # Metrics[n].Type) =>
            /\ provLog[n].outcome = "error"
            /\ provResult = "error"
            /\ BoundCollector(Metrics[n]) # provLog[n].existing

\* C3: a counter whose value template resolves to text that parses to 0
\* has 0 added to it, not 1.
C3_ExplicitZeroKept ==
    (/\ Dispatched
     /\ Def.Type = MetricTypeCounter
     /\ Def.Value # NoValue
     /\ ~ResolvedValue.err
     /\ ResolvedValue.val = 0) =>
        dispatched.value = 0

\* C4: on the deferred path, when the downstream handler returned without
\* setting a status code, the status of the sink is 200 and the published
\* placeholder is "200".
C4_DefaultStatus200 ==
    (Published /\ hdrCalls = <<>>) =>
        /\ Status(wrap) = 200
        /\ replacer[PhStatus] = <<"2", "0", "0">>

C6_OneDispatchOneCall ==
    Completed =>
        trace = IF Def.AfterResponse
                THEN <<"next", "nextret", "publish", "dispatch">>
                ELSE <<"dispatch", "next", "nextret">>

\* C7: when the value template resolves to text that is not a number, the
\* recorded value is 0, and the request ends with the result of the
\* downstream handler.
C7_ParseFailureRecordsZero ==
    (Dispatched /\ Def.Value # NoValue /\ ResolvedValue.err) =>
        /\ dispatched.value = 0
        /\ Completed => ret = res

\* C8: after setup against a provisioned registry, a handler whose metric
\* name is not a key of the registry has an error and no definition; one
\* whose name is a key has no error and the definition of that name; and no
\* request is handled by a handler without definition.
C8_SetupBindsOrFails ==
    /\ (setupErr # "unset" /\ app /\ provResult = "ok") =>
           IF h.MetricName \in DOMAIN Metrics
           THEN /\ setupErr = "nil"
                /\ h.useMetric = h.MetricName
                /\ phase = "serving"
           ELSE /\ setupErr # "nil"
                /\ h.useMetric = NULL
                /\ phase = "failed"
    /\ (pc # "idle" \/ trace # <<>>) => h.useMetric \in DOMAIN Metrics

\* Setup failed on a name that the provisioned registry does not define.
C8_Witness ==
    /\ phase = "failed"
    /\ provResult = "ok"
    /\ Metrics # EmptyMetrics
    /\ h.MetricName \notin DOMAIN Metrics
    /\ setupErr = "not found"

\* C9: a dispatch passes as many label values as the bound collector has
\* label names, and the i-th value is the resolved template of the
\* definition's label that has the collector's i-th label name.
C9_LabelValuesMatchNames ==
    (Dispatched /\ dispatched.handle \in DOMAIN coll) =>
        LET names == coll[dispatched.handle].labelNames
        IN  /\ Len(dispatched.labelValues) = Len(names)
            /\ \A i \in 1..Len(names) :
                 \E j \in 1..Len(Def.Labels) :
                    /\ Def.Labels[j].Name = names[i]
                    /\ dispatched.labelValues[i] =
                           ReplaceKnown(replacer, Def.Labels[j].Value, EmptyLabel)

\* C10: the value handed to a counter is never negative, and no request is
\* aborted by the counter refusing the value.
C10_CounterValueNotNegative ==
    (Dispatched /\ dispatched.kind = MetricTypeCounter) =>
        /\ dispatched.value >= 0
        /\ ret # "panic"

====
